---- MODULE Spec2Model ----
(***************************************************************************)
(* A model of calculator.js: the diabetes risk calculator (CONFIG,         *)
(* RiskModel, UIController, TimelineChart, App).                           *)
(*                                                                         *)
(* Numbers.  JavaScript numbers are doubles; the model is fixed point:     *)
(*   - a measured value (age, mg/dL, mmol/L, in, cm, a 0/1 flag) is an     *)
(*     integer count of thousandths (Milli); 1.7 mmol/L is 1700,           *)
(*   - a regression weight is an integer count of 1e-4 (BetaScale),        *)
(*   - a score is an integer count of 1e-7 (ScoreScale),                   *)
(*   - a probability is an integer count of 1e-6 (ProbScale) and a risk    *)
(*     percentage is probability * 100 in the same unit (1e-6 percent).    *)
(* Sums, differences and products of decimals are exact.  A US -> SI       *)
(* conversion of toSI is rounded to the nearest thousandth, which decides  *)
(* every threshold comparison as the double does for raw values given to   *)
(* one decimal.  The logistic function keeps the two facts about the       *)
(* double that the fixed point value alone would lose: the result is       *)
(* exactly 1 or exactly 0 only where 1 + Math.exp(-score) rounds to 1 or   *)
(* overflows.                                                              *)
(***************************************************************************)
EXTENDS Integers, Sequences, FiniteSets, TLC

VARIABLES
  inp,          \* the number inputs `${field}-value`, field -> value
  toggles,      \* the checkboxes race-toggle, parentHist-toggle, unit-toggle
  sliderMode,   \* the range set applied to the sliders: "us" or "si"
  state,        \* App.state
  snapshots,    \* TimelineChart.snapshots
  clock,        \* the time new Date() reads
  timeline,     \* what TimelineChart.render put into #timeline-chart
  panel,        \* what the scenario-comparison panel shows; NULL while it
                \* is not displayed (display: none)
  badge,        \* what the what-if badge of a field shows; NULL while it
                \* has no "visible" class
  timers,       \* pending setTimeout callbacks of onSliderEnd, field -> count
  call,         \* the arguments of a direct call of a RiskModel function
  ret           \* what that call returned

vars == <<inp, toggles, sliderMode, state, snapshots, clock, timeline, panel,
          badge, timers, call, ret>>

sessionVars == <<inp, toggles, sliderMode, state, snapshots, clock, timeline,
                 panel, badge, timers>>

Milli      == 10^3
BetaScale  == 10^4
ScoreScale == Milli * BetaScale
ProbScale  == 10^6
QScale     == 10^8

\* null, and a JavaScript value that may be null (or NaN): <<>> or <<v>>
NULL == <<>>
Some(v) == <<v>>
Val(x) == x[1]

\* round(n / d) for d > 0, halves up (Math.round)
RoundDiv(n, d) == (2 * n + d) \div (2 * d)

Min2(a, b) == IF a < b THEN a ELSE b
Max2(a, b) == IF a > b THEN a ELSE b
Abs(a)     == IF a < 0 THEN -a ELSE a

(***************************************************************************)
(* 1. CONFIG                                                               *)
(***************************************************************************)

\* Object.keys order of BETAS / MEANS / the contribution record
FIELDS == <<"age", "race", "parentHist", "sbp", "waist", "height",
            "fastGlu", "cholHDL", "cholTri">>

FieldSet == {FIELDS[i] : i \in 1..Len(FIELDS)}

\* the fields that have a slider and a range
RANGED == {"age", "sbp", "height", "waist", "fastGlu", "cholHDL", "cholTri"}

\* weights in 1e-4; sigma is the intercept
BETAS == [age |-> 173, race |-> 4433, parentHist |-> 4981, sbp |-> 111,
          waist |-> 273, height |-> -326, fastGlu |-> 15849,
          cholHDL |-> -4718, cholTri |-> 2420, sigma |-> -99808]

\* population means in thousandths
MEANS == [age |-> 54000, race |-> 250, parentHist |-> 300, sbp |-> 120000,
          waist |-> 97000, height |-> 168000, fastGlu |-> 5500,
          cholHDL |-> 1300, cholTri |-> 1700]

\* a factor as <<numerator, denominator>>: 2.54, 1/18, 1/38.67, 1/88.57
CONVERSIONS == [heightToCm |-> <<254, 100>>, waistToCm |-> <<254, 100>>,
                gluToMmol  |-> <<1, 18>>,    hdlToMmol |-> <<100, 3867>>,
                triToMmol  |-> <<100, 8857>>]

\* <<min, max, step>> per field and unit system, in thousandths
RANGES ==
  [age     |-> [us |-> <<20000, 80000, 1000>>,  si |-> <<20000, 80000, 1000>>],
   sbp     |-> [us |-> <<80000, 220000, 1000>>, si |-> <<80000, 220000, 1000>>],
   height  |-> [us |-> <<48000, 84000, 1000>>,  si |-> <<122000, 213000, 1000>>],
   waist   |-> [us |-> <<25000, 60000, 1000>>,  si |-> <<64000, 152000, 1000>>],
   fastGlu |-> [us |-> <<50000, 300000, 1000>>, si |-> <<2800, 16700, 100>>],
   cholHDL |-> [us |-> <<20000, 100000, 1000>>, si |-> <<500, 2600, 100>>],
   cholTri |-> [us |-> <<50000, 500000, 1000>>, si |-> <<600, 5600, 100>>]]

THRESHOLDS ==
  [fastGlu |-> [elevated |-> 5600,   high |-> 7000],
   sbp     |-> [elevated |-> 130000, high |-> 160000],
   cholHDL |-> [low |-> 1000,        veryLow |-> 800],
   cholTri |-> [elevated |-> 1700,   high |-> 2300],
   waist   |-> [elevated |-> 94000,  high |-> 102000]]

\* the literal 150 (mg/dL) of getElevatedFactors
TRI_RAW_ELEVATED == 150 * Milli

DEFAULTS ==
  [age |-> 50000, sbp |-> 120000,
   height  |-> [us |-> 66000,  si |-> 168000],
   waist   |-> [us |-> 36000,  si |-> 91000],
   fastGlu |-> [us |-> 95000,  si |-> 5300],
   cholHDL |-> [us |-> 50000,  si |-> 1300],
   cholTri |-> [us |-> 150000, si |-> 1700],
   race |-> FALSE, parentHist |-> FALSE]

(***************************************************************************)
(* 2. RiskModel                                                            *)
(***************************************************************************)

\* val * factor and val / factor, to the nearest thousandth
MulFactor(val, c) == RoundDiv(val * c[1], c[2])

\* toSI that leaves the waist in inches
toSI_waistInches(inputs, isMetric) ==
  IF isMetric THEN inputs
  ELSE [inputs EXCEPT
          !.height  = MulFactor(inputs.height,  CONVERSIONS.heightToCm),
          !.fastGlu = MulFactor(inputs.fastGlu, CONVERSIONS.gluToMmol),
          !.cholHDL = MulFactor(inputs.cholHDL, CONVERSIONS.hdlToMmol),
          !.cholTri = MulFactor(inputs.cholTri, CONVERSIONS.triToMmol)]

toSI(inputs, isMetric) ==
  IF isMetric THEN inputs
  ELSE [inputs EXCEPT
          !.height  = MulFactor(inputs.height,  CONVERSIONS.heightToCm),
          !.waist   = MulFactor(inputs.waist,   CONVERSIONS.waistToCm),
          !.fastGlu = MulFactor(inputs.fastGlu, CONVERSIONS.gluToMmol),
          !.cholHDL = MulFactor(inputs.cholHDL, CONVERSIONS.hdlToMmol),
          !.cholTri = MulFactor(inputs.cholTri, CONVERSIONS.triToMmol)]

\* Score with the weight of height taken positive
Score_heightSign(siVals) ==
  BETAS.sigma * Milli +
  BETAS.age        * siVals.age +
  BETAS.race       * siVals.race +
  BETAS.parentHist * siVals.parentHist +
  BETAS.sbp        * siVals.sbp +
  BETAS.waist      * siVals.waist -
  BETAS.height     * siVals.height +
  BETAS.fastGlu    * siVals.fastGlu +
  BETAS.cholHDL    * siVals.cholHDL +
  BETAS.cholTri    * siVals.cholTri

\* the score of computeProbability, in 1e-7
Score(siVals) ==
  BETAS.sigma * Milli +
  BETAS.age        * siVals.age +
  BETAS.race       * siVals.race +
  BETAS.parentHist * siVals.parentHist +
  BETAS.sbp        * siVals.sbp +
  BETAS.waist      * siVals.waist +
  BETAS.height     * siVals.height +
  BETAS.fastGlu    * siVals.fastGlu +
  BETAS.cholHDL    * siVals.cholHDL +
  BETAS.cholTri    * siVals.cholTri

\* a * b for a, b in 0..QScale standing for 0..1 (1e-8)
MulQ(a, b) ==
  LET ah == a \div 10000  al == a % 10000
      bh == b \div 10000  bl == b % 10000
  IN  ah * bh + (ah * bl + al * bh) \div 10000 + (al * bl) \div QScale

\* e^-k for k = 0..19 and e^-(j/10) for j = 0..9, in 1e-8
EXP_INT == <<100000000, 36787944, 13533528, 4978707, 1831564, 673795,
             247875, 91188, 33546, 12341, 4540, 1670, 614, 226, 83, 31,
             11, 4, 2, 1>>
EXP_TENTH == <<100000000, 90483742, 81873075, 74081822, 67032005,
               60653066, 54881164, 49658530, 44932896, 40656966>>

\* Math.exp(-a) for a >= 0 in 1e-7, result in 1e-8: e^-k * e^-(j/10) * e^-g,
\* the last factor by its series (g < 0.1)
ExpNeg(a) ==
  LET k  == a \div ScoreScale
      j  == (a % ScoreScale) \div (ScoreScale \div 10)
      g  == (a % (ScoreScale \div 10)) * 10
      g2 == MulQ(g, g)
      g3 == MulQ(g2, g)
      g4 == MulQ(g2, g2)
      t  == QScale - g + g2 \div 2 - g3 \div 6 + g4 \div 24
  IN  IF k >= Len(EXP_INT) THEN 0
      ELSE MulQ(MulQ(EXP_INT[k + 1], EXP_TENTH[j + 1]), t)

\* floor(n * 10^k / d) for 0 <= n <= d, digit by digit
RECURSIVE LongDiv(_, _, _, _)
LongDiv(q, r, d, k) ==
  IF k = 0 THEN q
  ELSE LongDiv(q * 10 + (r * 10) \div d, (r * 10) % d, d, k - 1)

DivDigits(n, d, k) == LongDiv(n \div d, n % d, d, k)

\* 53 ln 2 = 36.7368005...: from here on Math.exp(-score) <= 2^-53 and
\* 1 + Math.exp(-score) is the double 1
SAT_ONE == 367368006
\* ln(DBL_MAX) = 709.78...: below -709.79 Math.exp(-score) is Infinity
SatZero(score) == score \div ScoreScale <= -710

\* 1 / (1 + Math.exp(-score)) in 1e-6.  The double is exactly 1 or 0 only
\* when saturated; a value the fixed point would round to 0 or 1 stays one
\* unit inside.
Logistic(score) ==
  IF score >= SAT_ONE THEN ProbScale
  ELSE IF SatZero(score) THEN 0
  ELSE LET e == ExpNeg(Abs(score))
           p == IF score >= 0 THEN DivDigits(QScale, QScale + e, 6)
                              ELSE DivDigits(e, QScale + e, 6)
       IN  Min2(Max2(p, 1), ProbScale - 1)

\* computeProbability with the sign of the exponent lost: 1 / (1 + e^score)
computeProbability_expSign(siVals) == Logistic(-Score(siVals))

computeProbability(siVals) == Logistic(Score(siVals))

\* computeContributions with glucose centred on the HDL mean
computeContributions_gluMean(siVals) ==
  [f \in FieldSet |->
     BETAS[f] * (siVals[f] - (IF f = "fastGlu" THEN MEANS.cholHDL ELSE MEANS[f]))]

\* computeContributions with parental history not centred
computeContributions_parentMean(siVals) ==
  [f \in FieldSet |->
     BETAS[f] * (siVals[f] - (IF f = "parentHist" THEN 0 ELSE MEANS[f]))]

computeContributions(siVals) ==
  [age        |-> BETAS.age        * (siVals.age        - MEANS.age),
   race       |-> BETAS.race       * (siVals.race       - MEANS.race),
   parentHist |-> BETAS.parentHist * (siVals.parentHist - MEANS.parentHist),
   sbp        |-> BETAS.sbp        * (siVals.sbp        - MEANS.sbp),
   waist      |-> BETAS.waist      * (siVals.waist      - MEANS.waist),
   height     |-> BETAS.height     * (siVals.height     - MEANS.height),
   fastGlu    |-> BETAS.fastGlu    * (siVals.fastGlu    - MEANS.fastGlu),
   cholHDL    |-> BETAS.cholHDL    * (siVals.cholHDL    - MEANS.cholHDL),
   cholTri    |-> BETAS.cholTri    * (siVals.cholTri    - MEANS.cholTri)]

Push(arr, cond, name) == IF cond THEN Append(arr, name) ELSE arr

\* getElevatedFactors with triglycerides compared in SI in both unit modes
getElevatedFactors_triSI(siVals, rawInputs, isMetric) ==
  LET e1 == Push(<<>>, siVals.fastGlu >= THRESHOLDS.fastGlu.elevated, "fastGlu")
      e2 == Push(e1,   siVals.sbp     >= THRESHOLDS.sbp.elevated,     "sbp")
      e3 == Push(e2,   siVals.cholHDL <= THRESHOLDS.cholHDL.low,      "cholHDL")
      e4 == Push(e3,   siVals.cholTri >= THRESHOLDS.cholTri.elevated, "cholTri")
      e5 == Push(e4,   siVals.waist >= THRESHOLDS.waist.elevated, "waist")
  IN  [elevatedFactors |-> e5,
       waistIsHigh     |-> siVals.waist >= THRESHOLDS.waist.high]

\* getElevatedFactors that flags HDL only strictly below the threshold
getElevatedFactors_hdlStrict(siVals, rawInputs, isMetric) ==
  LET e1 == Push(<<>>, siVals.fastGlu >= THRESHOLDS.fastGlu.elevated, "fastGlu")
      e2 == Push(e1,   siVals.sbp     >= THRESHOLDS.sbp.elevated,     "sbp")
      e3 == Push(e2,   siVals.cholHDL <  THRESHOLDS.cholHDL.low,      "cholHDL")
      triElevated == IF isMetric
                     THEN siVals.cholTri >= THRESHOLDS.cholTri.elevated
                     ELSE rawInputs.cholTri >= TRI_RAW_ELEVATED
      e4 == Push(e3,   triElevated, "cholTri")
      e5 == Push(e4,   siVals.waist >= THRESHOLDS.waist.elevated, "waist")
  IN  [elevatedFactors |-> e5,
       waistIsHigh     |-> siVals.waist >= THRESHOLDS.waist.high]

getElevatedFactors(siVals, rawInputs, isMetric) ==
  LET e1 == Push(<<>>, siVals.fastGlu >= THRESHOLDS.fastGlu.elevated, "fastGlu")
      e2 == Push(e1,   siVals.sbp     >= THRESHOLDS.sbp.elevated,     "sbp")
      e3 == Push(e2,   siVals.cholHDL <= THRESHOLDS.cholHDL.low,      "cholHDL")
      triElevated == IF isMetric
                     THEN siVals.cholTri >= THRESHOLDS.cholTri.elevated
                     ELSE rawInputs.cholTri >= TRI_RAW_ELEVATED
      e4 == Push(e3,   triElevated, "cholTri")
      e5 == Push(e4,   siVals.waist >= THRESHOLDS.waist.elevated, "waist")
  IN  [elevatedFactors |-> e5,
       waistIsHigh     |-> siVals.waist >= THRESHOLDS.waist.high]

\* CONFIG.RANGES[field]?.[mode]?.[2] ?? 1
StepOf(field, mode) == IF field \in RANGED THEN RANGES[field][mode][3] ELSE Milli

\* computeWhatIfDelta that takes the US step in either unit mode
computeWhatIfDelta_usStep(rawInputs, isMetric, field, direction) ==
  LET baseProb == computeProbability(toSI(rawInputs, isMetric))
      step     == StepOf(field, "us")
      alteredInputs == [rawInputs EXCEPT ![field] = rawInputs[field] + direction * step * 5]
      altProb  == computeProbability(toSI(alteredInputs, isMetric))
  IN  (altProb - baseProb) * 100

computeWhatIfDelta(rawInputs, isMetric, field, direction) ==
  LET baseProb == computeProbability(toSI(rawInputs, isMetric))
      mode     == IF isMetric THEN "si" ELSE "us"
      step     == StepOf(field, mode)
      alteredInputs == [rawInputs EXCEPT ![field] = rawInputs[field] + direction * step * 5]
      altProb  == computeProbability(toSI(alteredInputs, isMetric))
  IN  (altProb - baseProb) * 100

(***************************************************************************)
(* 3. UIController                                                         *)
(***************************************************************************)

\* NaN, which is also what parseFloat reads from a number input that was
\* assigned NaN
NAN == <<>>

IsNaN(v) == v = NAN

ModeOf(isMetric) == IF isMetric THEN "si" ELSE "us"

\* the conversion factor applyConvertedValues uses for a field
FactorOf(field) ==
  CASE field \in {"height", "waist"} -> CONVERSIONS.heightToCm
    [] field = "fastGlu"             -> CONVERSIONS.gluToMmol
    [] field = "cholHDL"             -> CONVERSIONS.hdlToMmol
    [] field = "cholTri"             -> CONVERSIONS.triToMmol
    [] OTHER                         -> <<1, 1>>

\* One entry of applyConvertedValues.  The converted value is the exact
\* quotient n / d: val *= factor when switching to metric, val /= factor
\* otherwise; it is clamped to the range of the new mode and rounded to one
\* decimal (step < 1: toFixed(1)) or to an integer (Math.round).
ConvertedValue(field, rawVal, isMetric) ==
  LET c    == FactorOf(field)
      n    == IF isMetric THEN rawVal * c[1] ELSE rawVal * c[2]
      d    == IF isMetric THEN c[2] ELSE c[1]
      rng  == RANGES[field][ModeOf(isMetric)]
      min  == rng[1]
      max  == rng[2]
      step == rng[3]
      unit == IF step < Milli THEN Milli \div 10 ELSE Milli
  IN  IF n < min * d THEN RoundDiv(min, unit) * unit
      ELSE IF n > max * d THEN RoundDiv(max, unit) * unit
      ELSE RoundDiv(n, d * unit) * unit

CONVERTED == {"height", "waist", "fastGlu", "cholHDL", "cholTri"}

\* the number inputs after applyConvertedValues(savedValues, isMetric)
applyConvertedValues(inputs, savedValues, isMetric) ==
  [f \in DOMAIN inputs |->
     IF f \notin DOMAIN savedValues THEN inputs[f]
     ELSE IF IsNaN(savedValues[f]) THEN NAN
     ELSE Some(ConvertedValue(f, Val(savedValues[f]), isMetric))]

\* parseFloat(el.value) || 0
ParseOrZero(v) == IF IsNaN(v) THEN 0 ELSE Val(v)

readInputs(inputs, tog) ==
  [age        |-> ParseOrZero(inputs.age),
   race       |-> IF tog.race THEN Milli ELSE 0,
   parentHist |-> IF tog.parentHist THEN Milli ELSE 0,
   sbp        |-> ParseOrZero(inputs.sbp),
   height     |-> ParseOrZero(inputs.height),
   waist      |-> ParseOrZero(inputs.waist),
   fastGlu    |-> ParseOrZero(inputs.fastGlu),
   cholHDL    |-> ParseOrZero(inputs.cholHDL),
   cholTri    |-> ParseOrZero(inputs.cholTri)]

\* Object.values(contributions).reduce((sum, val) => sum + Math.abs(val), 0)
\* over the first i fields
RECURSIVE totalAbsContribution(_, _)
totalAbsContribution(contributions, i) ==
  IF i = 0 THEN 0
  ELSE totalAbsContribution(contributions, i - 1) + Abs(contributions[FIELDS[i]])

\* items with it put behind every item whose abs is not smaller (the sort
\* by descending abs is stable)
RECURSIVE InsertByAbs(_, _)
InsertByAbs(items, it) ==
  IF items = <<>> THEN <<it>>
  ELSE IF items[1].abs >= it.abs THEN <<items[1]>> \o InsertByAbs(Tail(items), it)
  ELSE <<it>> \o items

RECURSIVE SortByAbs(_, _)
SortByAbs(items, i) ==
  IF i = 0 THEN <<>> ELSE InsertByAbs(SortByAbs(items, i - 1), items[i])

\* the items with a share that divides by the total even when it is 0:
\* pctOfTotal <<num, den>> stands for (num / den) * 100, <<0, 0>> for NaN
renderContributionChart_noGuard(contributions) ==
  LET total == totalAbsContribution(contributions, Len(FIELDS))
      items == [i \in 1..Len(FIELDS) |->
                  LET val == contributions[FIELDS[i]]
                  IN  [key |-> FIELDS[i], val |-> val, abs |-> Abs(val),
                       pctOfTotal |-> <<Abs(val), total>>]]
  IN  SortByAbs(items, Len(FIELDS))

\* the rows of renderContributionChart, top to bottom.  pctOfTotal is the
\* exact quotient: <<num, den>> stands for (num / den) * 100 percent.
renderContributionChart(contributions) ==
  LET total == totalAbsContribution(contributions, Len(FIELDS))
      items == [i \in 1..Len(FIELDS) |->
                  LET val == contributions[FIELDS[i]]
                  IN  [key |-> FIELDS[i], val |-> val, abs |-> Abs(val),
                       pctOfTotal |-> IF total > 0 THEN <<Abs(val), total>>
                                      ELSE <<0, 1>>]]
  IN  SortByAbs(items, Len(FIELDS))

\* 0.01 percent, the smallest delta a what-if badge shows
BADGE_MIN == ProbScale \div 100

\* x.toFixed(digits) of a value in 1e-6: the nearest multiple of 10^-digits,
\* a tie going away from zero
ToFixed(x, digits) ==
  LET unit == ProbScale \div 10^digits
  IN  IF x < 0 THEN -(RoundDiv(-x, unit) * unit) ELSE RoundDiv(x, unit) * unit

\* the badges after renderWhatIfBadge(field, delta): hidden, or visible with
\* the delta written with two decimals and the class of its sign
renderWhatIfBadge(badges, field, delta) ==
  IF field \notin DOMAIN badges THEN badges
  ELSE IF Abs(delta) < BADGE_MIN
       THEN [badges EXCEPT ![field] = NULL]
       ELSE [badges EXCEPT ![field] =
               Some([delta    |-> ToFixed(delta, 2),
                     cssClass |-> IF delta > 0 THEN "delta-up" ELSE "delta-down"])]

\* the panel content: baseline and current with one decimal, the delta
\* currentRisk - baselineRisk with two decimals and its class
renderScenarioComparison(baselineRisk, currentRisk) ==
  LET delta == currentRisk - baselineRisk
  IN  Some([baseline   |-> ToFixed(baselineRisk, 1),
            current    |-> ToFixed(currentRisk, 1),
            delta      |-> ToFixed(delta, 2),
            deltaClass |-> IF delta < 0 THEN "improved" ELSE "worsened"])

(***************************************************************************)
(* 4. RadarChart.  A ratio is the exact quotient <<num, den>>; coordinates *)
(* are in 1e-6 and are written to the SVG with one decimal.                *)
(***************************************************************************)

CENTER == 150
RADIUS == 115
AXES == <<"fastGlu", "sbp", "cholTri", "waist", "cholHDL", "age">>
AxisSet == {AXES[i] : i \in 1..Len(AXES)}

\* normalizeAxis without the inversion for cholHDL
normalizeAxis_noInvert(field, siValue) ==
  LET min == RANGES[field].si[1]
      max == RANGES[field].si[2]
  IN  <<Min2(Max2(siValue - min, 0), max - min), max - min>>

normalizeAxis(field, siValue) ==
  LET min   == RANGES[field].si[1]
      max   == RANGES[field].si[2]
      ratio == Min2(Max2(siValue - min, 0), max - min)
  IN  IF field = "cholHDL" THEN <<(max - min) - ratio, max - min>>
      ELSE <<ratio, max - min>>

\* cos and sin of 2 pi i / 6 - pi / 2 for axis i = 0..5, in 1e-4
AXIS_COS == <<0, 8660, 8660, 0, -8660, -8660>>
AXIS_SIN == <<-10000, -5000, 5000, 10000, 5000, -5000>>

\* polarToXY(i, RADIUS * norm) for the ratio norm of axis i = 0..5
polarToXY(i, norm) ==
  LET r == (RADIUS * DivDigits(norm[1], norm[2], 6)) \div 10000
  IN  [x |-> CENTER * 10^6 + r * AXIS_COS[i + 1],
       y |-> CENTER * 10^6 + r * AXIS_SIN[i + 1]]

\* the points attribute: x.toFixed(1),y.toFixed(1) per point
toPointsStr(points) ==
  [i \in 1..Len(points) |-> <<ToFixed(points[i].x, 1), ToFixed(points[i].y, 1)>>]

\* RadarChart.init that draws the population polygon from the default values
RadarInit_populationDefaults ==
  LET idealPoints == [i \in 1..Len(AXES) |->
                        polarToXY(i - 1, normalizeAxis(AXES[i], MEANS[AXES[i]]))]
      popPoints   == [i \in 1..Len(AXES) |->
                        polarToXY(i - 1, normalizeAxis(AXES[i],
                          IF AXES[i] \in {"age", "sbp"} THEN DEFAULTS[AXES[i]]
                          ELSE DEFAULTS[AXES[i]].si))]
  IN  [idealPoly      |-> toPointsStr(idealPoints),
       populationPoly |-> toPointsStr(popPoints),
       patientPoly    |-> <<>>,
       dots           |-> [f \in AxisSet |->
                             [cx |-> CENTER * 10^6, cy |-> CENTER * 10^6,
                              elevated |-> FALSE]]]

\* the polygons and dots of the SVG after RadarChart.init
RadarInit ==
  LET idealPoints == [i \in 1..Len(AXES) |->
                        polarToXY(i - 1, normalizeAxis(AXES[i], MEANS[AXES[i]]))]
  IN  [idealPoly      |-> toPointsStr(idealPoints),
       populationPoly |-> toPointsStr(idealPoints),
       patientPoly    |-> <<>>,
       dots           |-> [f \in AxisSet |->
                             [cx |-> CENTER * 10^6, cy |-> CENTER * 10^6,
                              elevated |-> FALSE]]]

\* the SVG after RadarChart.render(siVals, elevatedFactors)
RadarRender(svg, siVals, elevatedFactors) ==
  LET points == [i \in 1..Len(AXES) |->
                   polarToXY(i - 1, normalizeAxis(AXES[i], siVals[AXES[i]]))]
      at(f)  == CHOOSE i \in 1..Len(AXES) : AXES[i] = f
  IN  [svg EXCEPT
         !.patientPoly = toPointsStr(points),
         !.dots = [f \in AxisSet |->
                     [cx |-> ToFixed(points[at(f)].x, 1),
                      cy |-> ToFixed(points[at(f)].y, 1),
                      elevated |-> \E k \in 1..Len(elevatedFactors) :
                                     elevatedFactors[k] = f]]]

(***************************************************************************)
(* 5. TimelineChart                                                        *)
(***************************************************************************)

MAX_SNAPSHOTS == 20

Shift(arr) == SubSeq(arr, 2, Len(arr))

\* addSnapshot that shifts only once the array is longer than MAX_SNAPSHOTS
addSnapshot_lateShift(arr, riskPct, siVals, now) ==
  LET kept == IF Len(arr) > MAX_SNAPSHOTS THEN Shift(arr) ELSE arr
  IN  Append(kept, [timestamp |-> now, riskPct |-> riskPct, siVals |-> siVals])

\* addSnapshot that drops the newest entry (pop) instead of the oldest
addSnapshot_pop(arr, riskPct, siVals, now) ==
  LET kept == IF Len(arr) >= MAX_SNAPSHOTS THEN SubSeq(arr, 1, Len(arr) - 1) ELSE arr
  IN  Append(kept, [timestamp |-> now, riskPct |-> riskPct, siVals |-> siVals])

\* the snapshot array after addSnapshot(riskPct, siVals) at time now
addSnapshot(arr, riskPct, siVals, now) ==
  LET kept == IF Len(arr) >= MAX_SNAPSHOTS THEN Shift(arr) ELSE arr
  IN  Append(kept, [timestamp |-> now, riskPct |-> riskPct, siVals |-> siVals])

\* snapshots.length = 0
clear(arr) == <<>>

\* the height of the SVG and its padding, in px
TIMELINE_H == 80
PAD == [top |-> 10, right |-> 12, bottom |-> 16, left |-> 12]

\* container.offsetWidth - 48 || 250
WidthOf(offsetWidth) == IF offsetWidth - 48 = 0 THEN 250 ELSE offsetWidth - 48

\* Math.max(50, ...snapshots.map(s => s.riskPct)) over the first i snapshots
RECURSIVE MaxRisk(_, _)
MaxRisk(arr, i) ==
  IF i = 0 THEN 50 * ProbScale ELSE Max2(MaxRisk(arr, i - 1), arr[i].riskPct)

\* xScale(i) in 1e-6 px for index i = 0 .. n - 1
xScale(i, n, plotW) ==
  PAD.left * 10^6 +
    (IF n = 1 THEN (plotW * 10^6) \div 2 ELSE DivDigits(i, n - 1, 6) * plotW)

\* yScale(v) in 1e-6 px for a percentage v, 0 <= v <= maxY
yScale(v, maxY, plotH) ==
  PAD.top * 10^6 + plotH * 10^6 - DivDigits(v, maxY, 6) * plotH

\* TimelineChart.render that draws the line and area paths for a single
\* snapshot too
renderTimeline_pathsForOne(arr, offsetWidth) ==
  IF Len(arr) = 0 THEN [kind |-> "empty", dots |-> 0, line |-> FALSE, area |-> FALSE]
  ELSE LET W     == WidthOf(offsetWidth)
           plotW == W - PAD.left - PAD.right
           plotH == TIMELINE_H - PAD.top - PAD.bottom
           maxY  == MaxRisk(arr, Len(arr))
           n     == Len(arr)
       IN  [kind   |-> "chart", dots |-> n, line |-> n > 0, area |-> n > 0,
            W      |-> W,
            plotW  |-> plotW,
            plotH  |-> plotH,
            threshY |-> yScale(10 * ProbScale, maxY, plotH),
            points |-> [k \in 1..n |->
                          [cx |-> xScale(k - 1, n, plotW),
                           cy |-> yScale(arr[k].riskPct, maxY, plotH)]],
            labels |-> {k \in 1..n : k = 1 \/ k = n \/ (k - 1) % 5 = 0}]

\* TimelineChart.render in a container of the given offsetWidth: the empty
\* state, or a chart with the 10% line, one dot per snapshot, index labels,
\* and a line and an area path when there are at least two snapshots
renderTimeline(arr, offsetWidth) ==
  IF Len(arr) = 0 THEN [kind |-> "empty", dots |-> 0, line |-> FALSE, area |-> FALSE]
  ELSE LET W     == WidthOf(offsetWidth)
           plotW == W - PAD.left - PAD.right
           plotH == TIMELINE_H - PAD.top - PAD.bottom
           maxY  == MaxRisk(arr, Len(arr))
           n     == Len(arr)
       IN  [kind   |-> "chart", dots |-> n, line |-> n > 1, area |-> n > 1,
            W      |-> W,
            plotW  |-> plotW,
            plotH  |-> plotH,
            threshY |-> yScale(10 * ProbScale, maxY, plotH),
            points |-> [k \in 1..n |->
                          [cx |-> xScale(k - 1, n, plotW),
                           cy |-> yScale(arr[k].riskPct, maxY, plotH)]],
            labels |-> {k \in 1..n : k = 1 \/ k = n \/ (k - 1) % 5 = 0}]

\* the widths #timeline-chart is laid out with: not laid out, 48 px, 348 px
OffsetWidths == {0, 48, 348}

(***************************************************************************)
(* Initial state: the page as loaded (US units, default values) and        *)
(* App.state as constructed.                                               *)
(***************************************************************************)

\* everything but the number inputs
InitApp ==
  /\ toggles = [race |-> DEFAULTS.race, parentHist |-> DEFAULTS.parentHist,
                unit |-> FALSE]
  /\ sliderMode = "us"
  /\ state = [isMetric |-> FALSE, prevRiskPct |-> NULL, activeField |-> NULL,
              baselineRisk |-> NULL, isComparingScenario |-> FALSE]
  /\ snapshots = <<>>
  /\ clock = 0
  /\ timeline = renderTimeline(<<>>, 0)
  /\ panel = NULL
  /\ badge = [f \in RANGED |-> NULL]
  /\ timers = [f \in RANGED |-> 0]

InitSession ==
  /\ inp = [f \in RANGED |->
              Some(IF f \in {"age", "sbp"} THEN DEFAULTS[f] ELSE DEFAULTS[f].us)]
  /\ InitApp

(***************************************************************************)
(* 6. App: one action per event handler.  calculate is the recompute pass  *)
(* that ends most handlers; it reads the inputs and App.state as the       *)
(* handler left them.                                                      *)
(***************************************************************************)

\* readInputs, toSI, computeProbability * 100
RiskPctOf(inputs, tog, isMetric) ==
  computeProbability(toSI(readInputs(inputs, tog), isMetric)) * 100

calculate(inp1, tog1, st1, pnl1, badge1) ==
  LET riskPct == RiskPctOf(inp1, tog1, st1.isMetric)
  IN  /\ panel' = IF st1.isComparingScenario /\ st1.baselineRisk # NULL
                  THEN renderScenarioComparison(Val(st1.baselineRisk), riskPct)
                  ELSE pnl1
      /\ badge' = IF st1.activeField # NULL /\ st1.prevRiskPct # NULL
                  THEN renderWhatIfBadge(badge1, Val(st1.activeField),
                                         riskPct - Val(st1.prevRiskPct))
                  ELSE badge1

\* onSliderInput that takes the risk before the move as the new prevRiskPct
onSliderInput_rebase(field, value) ==
  /\ inp' = [inp EXCEPT ![field] = Some(value)]
  /\ state' = [state EXCEPT
                 !.activeField = Some(field),
                 !.prevRiskPct = Some(RiskPctOf(inp, toggles, state.isMetric))]
  /\ calculate(inp', toggles, state', panel, badge)
  /\ UNCHANGED <<toggles, sliderMode, snapshots, clock, timeline, timers>>

\* the slider of field was moved to value
onSliderInput(field, value) ==
  /\ inp' = [inp EXCEPT ![field] = Some(value)]
  /\ state' = [state EXCEPT !.activeField = Some(field)]
  /\ calculate(inp', toggles, state', panel, badge)
  /\ UNCHANGED <<toggles, sliderMode, snapshots, clock, timeline, timers>>

onSliderStart(field) ==
  /\ state' = [state EXCEPT
                 !.activeField = Some(field),
                 !.prevRiskPct = Some(RiskPctOf(inp, toggles, state.isMetric))]
  /\ UNCHANGED <<inp, toggles, sliderMode, snapshots, clock, timeline, panel,
                 badge, timers>>

onSliderEnd(field) ==
  /\ timers' = [timers EXCEPT ![field] = @ + 1]
  /\ state' = [state EXCEPT !.prevRiskPct = NULL, !.activeField = NULL]
  /\ UNCHANGED <<inp, toggles, sliderMode, snapshots, clock, timeline, panel,
                 badge>>

\* the timeout callback that also ends the drag in App.state
badgeTimeout_clearsActive(field) ==
  /\ timers[field] > 0
  /\ timers' = [timers EXCEPT ![field] = @ - 1]
  /\ badge' = [badge EXCEPT ![field] = NULL]
  /\ state' = [state EXCEPT !.activeField = NULL]
  /\ UNCHANGED <<inp, toggles, sliderMode, snapshots, clock, timeline, panel>>

\* the callback onSliderEnd(field) gave to setTimeout runs
badgeTimeout(field) ==
  /\ timers[field] > 0
  /\ timers' = [timers EXCEPT ![field] = @ - 1]
  /\ badge' = [badge EXCEPT ![field] = NULL]
  /\ UNCHANGED <<inp, toggles, sliderMode, state, snapshots, clock, timeline,
                 panel>>

\* Math.min(Math.max(val, min), max)
Clamp(val, min, max) == Min2(Max2(val, min), max)

\* typed is what the number input of field holds when its change event fires
onValueChange(field, typed) ==
  /\ inp' = [inp EXCEPT ![field] =
               IF IsNaN(typed) THEN NAN
               ELSE Some(Clamp(Val(typed), RANGES[field][sliderMode][1],
                               RANGES[field][sliderMode][2]))]
  /\ calculate(inp', toggles, state, panel, badge)
  /\ UNCHANGED <<toggles, sliderMode, state, snapshots, clock, timeline, timers>>

\* the change event of race-toggle or parentHist-toggle: calculate
onFlagChange(id) ==
  /\ toggles' = [toggles EXCEPT ![id] = ~@]
  /\ calculate(inp, toggles', state, panel, badge)
  /\ UNCHANGED <<inp, sliderMode, state, snapshots, clock, timeline, timers>>

\* onToggleUnits that converts even when the mode did not change
onToggleUnits_noReturn(checked) ==
  /\ toggles' = [toggles EXCEPT !.unit = checked]
  /\ state' = [state EXCEPT !.isMetric = checked]
  /\ sliderMode' = ModeOf(checked)
  /\ inp' = applyConvertedValues(inp, [f \in CONVERTED |-> inp[f]], checked)
  /\ calculate(inp', toggles', state', panel, badge)
  /\ UNCHANGED <<snapshots, clock, timeline, timers>>

\* checked is the state of unit-toggle when its change event fires
onToggleUnits(checked) ==
  LET prevMetric == state.isMetric
  IN  /\ toggles' = [toggles EXCEPT !.unit = checked]
      /\ state' = [state EXCEPT !.isMetric = checked]
      /\ IF prevMetric = checked
         THEN UNCHANGED <<inp, sliderMode, panel, badge>>
         ELSE /\ sliderMode' = ModeOf(checked)
              /\ inp' = applyConvertedValues(inp, [f \in CONVERTED |-> inp[f]], checked)
              /\ calculate(inp', toggles', state', panel, badge)
      /\ UNCHANGED <<snapshots, clock, timeline, timers>>

\* the defaults of onReset as input values
DefaultInputs ==
  [f \in RANGED |->
     Some(IF f \in {"age", "sbp"} THEN DEFAULTS[f] ELSE DEFAULTS[f].us)]

\* onReset that also takes the risk of the defaults as the new baseline of a
\* running comparison
onReset_rebaseline ==
  /\ toggles' = [race |-> DEFAULTS.race, parentHist |-> DEFAULTS.parentHist,
                 unit |-> FALSE]
  /\ state' = [state EXCEPT
                 !.isMetric = FALSE,
                 !.baselineRisk = IF state.isComparingScenario
                                  THEN Some(RiskPctOf(DefaultInputs, toggles', FALSE))
                                  ELSE NULL]
  /\ sliderMode' = "us"
  /\ inp' = DefaultInputs
  /\ snapshots' = clear(snapshots)
  /\ \E w \in OffsetWidths : timeline' = renderTimeline(snapshots', w)
  /\ calculate(inp', toggles', state', panel, [f \in RANGED |-> NULL])
  /\ UNCHANGED <<clock, timers>>

\* onReset that leaves the snapshot history in place
onReset_keepHistory ==
  /\ toggles' = [race |-> DEFAULTS.race, parentHist |-> DEFAULTS.parentHist,
                 unit |-> FALSE]
  /\ state' = [state EXCEPT !.isMetric = FALSE]
  /\ sliderMode' = "us"
  /\ inp' = DefaultInputs
  /\ snapshots' = snapshots
  /\ \E w \in OffsetWidths : timeline' = renderTimeline(snapshots', w)
  /\ calculate(inp', toggles', state', panel, [f \in RANGED |-> NULL])
  /\ UNCHANGED <<clock, timers>>

onReset ==
  /\ toggles' = [race |-> DEFAULTS.race, parentHist |-> DEFAULTS.parentHist,
                 unit |-> FALSE]
  /\ state' = [state EXCEPT !.isMetric = FALSE]
  /\ sliderMode' = "us"
  /\ inp' = DefaultInputs
  /\ snapshots' = clear(snapshots)
  /\ \E w \in OffsetWidths : timeline' = renderTimeline(snapshots', w)
  /\ calculate(inp', toggles', state', panel, [f \in RANGED |-> NULL])
  /\ UNCHANGED <<clock, timers>>

\* onSnapshot that also keeps the risk it computed as prevRiskPct
onSnapshot_storesRisk ==
  LET rawInputs == readInputs(inp, toggles)
      siVals    == toSI(rawInputs, state.isMetric)
      riskPct   == computeProbability(siVals) * 100
  IN  /\ snapshots' = addSnapshot(snapshots, riskPct, siVals, clock)
      /\ clock' = clock + 1
      /\ \E w \in OffsetWidths : timeline' = renderTimeline(snapshots', w)
      /\ state' = [state EXCEPT !.prevRiskPct = Some(riskPct)]
      /\ UNCHANGED <<inp, toggles, sliderMode, panel, badge, timers>>

onSnapshot ==
  LET rawInputs == readInputs(inp, toggles)
      siVals    == toSI(rawInputs, state.isMetric)
      riskPct   == computeProbability(siVals) * 100
  IN  /\ snapshots' = addSnapshot(snapshots, riskPct, siVals, clock)
      /\ clock' = clock + 1
      /\ \E w \in OffsetWidths : timeline' = renderTimeline(snapshots', w)
      /\ UNCHANGED <<inp, toggles, sliderMode, state, panel, badge, timers>>

\* onCompareScenario that leaves the baseline in place when comparison ends
onCompareScenario_keepBaseline ==
  LET currentRisk == RiskPctOf(inp, toggles, state.isMetric)
      comparing   == ~state.isComparingScenario
  IN  /\ IF comparing
         THEN /\ state' = [state EXCEPT !.isComparingScenario = TRUE,
                                        !.baselineRisk = Some(currentRisk)]
              /\ panel' = renderScenarioComparison(currentRisk, currentRisk)
         ELSE /\ state' = [state EXCEPT !.isComparingScenario = FALSE]
              /\ panel' = NULL
      /\ UNCHANGED <<inp, toggles, sliderMode, snapshots, clock, timeline, badge,
                     timers>>

onCompareScenario ==
  LET currentRisk == RiskPctOf(inp, toggles, state.isMetric)
      comparing   == ~state.isComparingScenario
  IN  /\ IF comparing
         THEN /\ state' = [state EXCEPT !.isComparingScenario = TRUE,
                                        !.baselineRisk = Some(currentRisk)]
              /\ panel' = renderScenarioComparison(currentRisk, currentRisk)
         ELSE /\ state' = [state EXCEPT !.isComparingScenario = FALSE,
                                        !.baselineRisk = NULL]
              /\ panel' = NULL
      /\ UNCHANGED <<inp, toggles, sliderMode, snapshots, clock, timeline, badge,
                     timers>>

NoCall == [fn |-> "none"]

(***************************************************************************)
(* Direct calls of the RiskModel functions on drawn records: a record is   *)
(* drawn, then one function is applied to it.                              *)
(***************************************************************************)

\* the population mean vector as an SI record
MeansRecord == [f \in FieldSet |-> MEANS[f]]

\* values a drawn record takes per field: the population mean and a second
\* value; for triglycerides both sides of both thresholds
DrawnValues ==
  [age        |-> {54000, 80000},
   race       |-> {250, 1000},
   parentHist |-> {300, 0},
   sbp        |-> {120000, 130000},
   waist      |-> {97000, 36000},
   height     |-> {168000, 66000},
   fastGlu    |-> {5500, 95000},
   cholHDL    |-> {1300, 50000},
   cholTri    |-> {1700, 1694, 150000, 149000}]

Init ==
  /\ InitSession
  /\ call = NoCall
  /\ ret = NoCall

(***************************************************************************)
(* The session: every handler, on a small alphabet of user inputs.         *)
(***************************************************************************)

\* the fields the user drags or edits
SessionFields == {"fastGlu"}

\* slider positions the user picks, per range set
SliderSamples ==
  [fastGlu |-> [us |-> {101000}, si |-> {7000}]]

\* what the user types: nothing numeric, a value above every range
TypedSamples == {NAN, Some(999000)}

SessionFlags == {"race"}

MaxSessionSnapshots == 1

Next ==
  \/ /\ \E f \in SessionFields : \E v \in SliderSamples[f][sliderMode] : onSliderInput(f, v)
     /\ UNCHANGED <<call, ret>>
  \/ /\ \E f \in SessionFields : \E t \in TypedSamples : onValueChange(f, t)
     /\ UNCHANGED <<call, ret>>
  \/ /\ \E id \in SessionFlags : onFlagChange(id)
     /\ UNCHANGED <<call, ret>>
  \/ onToggleUnits(~toggles.unit) /\ UNCHANGED <<call, ret>>
  \/ onToggleUnits(toggles.unit) /\ UNCHANGED <<call, ret>>
  \/ onReset /\ UNCHANGED <<call, ret>>
  \/ clock < MaxSessionSnapshots /\ onSnapshot /\ UNCHANGED <<call, ret>>
  \/ onCompareScenario /\ UNCHANGED <<call, ret>>

Spec == Init /\ [][Next]_vars

InitModel ==
  /\ InitSession
  /\ \E raw \in [age : DrawnValues.age, race : DrawnValues.race,
                  parentHist : DrawnValues.parentHist, sbp : DrawnValues.sbp,
                  waist : DrawnValues.waist, height : DrawnValues.height,
                  fastGlu : DrawnValues.fastGlu, cholHDL : DrawnValues.cholHDL,
                  cholTri : DrawnValues.cholTri] :
       \E isMetric \in BOOLEAN :
         \E siVals \in {toSI(raw, isMetric), MeansRecord} :
           call = [rawInputs |-> raw, isMetric |-> isMetric, siVals |-> siVals]
  /\ ret = NoCall

CallToSI ==
  /\ ret = NoCall
  /\ ret' = [fn |-> "toSI", value |-> toSI(call.rawInputs, call.isMetric)]
  /\ UNCHANGED <<sessionVars, call>>

CallComputeProbability ==
  /\ ret = NoCall
  /\ ret' = [fn |-> "computeProbability", score |-> Score(call.siVals),
             value |-> computeProbability(call.siVals)]
  /\ UNCHANGED <<sessionVars, call>>

CallComputeContributions ==
  /\ ret = NoCall
  /\ ret' = [fn |-> "computeContributions",
             value |-> computeContributions(call.siVals)]
  /\ UNCHANGED <<sessionVars, call>>

CallGetElevatedFactors ==
  /\ ret = NoCall
  /\ ret' = [fn |-> "getElevatedFactors",
             value |-> getElevatedFactors(call.siVals, call.rawInputs, call.isMetric)]
  /\ UNCHANGED <<sessionVars, call>>

CallComputeWhatIfDelta ==
  /\ ret = NoCall
  /\ \E field \in FieldSet, direction \in {-1, 1} :
       ret' = [fn |-> "computeWhatIfDelta", field |-> field,
               direction |-> direction,
               value |-> computeWhatIfDelta(call.rawInputs, call.isMetric,
                                            field, direction)]
  /\ UNCHANGED <<sessionVars, call>>

CallRenderContributionChart ==
  /\ ret = NoCall
  /\ ret' = [fn |-> "renderContributionChart",
             contributions |-> computeContributions(call.siVals),
             value |-> renderContributionChart(computeContributions(call.siVals))]
  /\ UNCHANGED <<sessionVars, call>>

NextModel ==
  \/ CallToSI
  \/ CallComputeProbability
  \/ CallComputeContributions
  \/ CallGetElevatedFactors
  \/ CallComputeWhatIfDelta
  \/ CallRenderContributionChart

SpecModel == InitModel /\ [][NextModel]_vars

(***************************************************************************)
(* getElevatedFactors on records around the thresholds: the record is what *)
(* readInputs returned in either unit mode, siVals its toSI.               *)
(***************************************************************************)

\* values per field, read as US or as SI values: at, just below and just
\* above each threshold; the other fields keep their defaults
FactorValues ==
  [fastGlu |-> {5599, 5600, 100000, 101000},
   sbp     |-> {129000, 130000, 131000},
   cholHDL |-> {999, 1000, 1001, 50000},
   cholTri |-> {1700, 149000},
   waist   |-> {36000, 37000, 38000, 41000, 93999, 94000, 101999, 102000}]

InitFactors ==
  /\ InitSession
  /\ \E g \in FactorValues.fastGlu, b \in FactorValues.sbp, h \in FactorValues.cholHDL,
        t \in FactorValues.cholTri, w \in FactorValues.waist, isMetric \in BOOLEAN :
       LET raw == [age |-> DEFAULTS.age, race |-> 0, parentHist |-> 0,
                   sbp |-> b, height |-> DEFAULTS.height[ModeOf(isMetric)],
                   waist |-> w, fastGlu |-> g, cholHDL |-> h, cholTri |-> t]
       IN  call = [rawInputs |-> raw, isMetric |-> isMetric,
                   siVals |-> toSI(raw, isMetric)]
  /\ ret = NoCall

NextFactors ==
  \/ CallToSI
  \/ CallGetElevatedFactors

SpecFactors == InitFactors /\ [][NextFactors]_vars

(***************************************************************************)
(* The radar chart: one axis takes a value of its SI slider or one beyond  *)
(* its ends, the others the population means or the defaults; then         *)
(* normalizeAxis is called on an axis, or the chart is built and rendered. *)
(***************************************************************************)

\* the positions of a slider: min, min + step, ... up to max
SliderValues(field, mode) ==
  LET rng == RANGES[field][mode]
  IN  {rng[1] + k * rng[3] : k \in 0..((rng[2] - rng[1]) \div rng[3])}

\* the SI slider positions of a field, one unit below the minimum, one above
\* the maximum, and the population mean
AxisValues(field) ==
  SliderValues(field, "si")
    \cup {RANGES[field].si[1] - Milli, RANGES[field].si[2] + Milli, MEANS[field]}

\* the SI defaults as a record
DefaultsSI ==
  [f \in FieldSet |->
     IF f \in {"race", "parentHist"} THEN 0
     ELSE IF f \in {"age", "sbp"} THEN DEFAULTS[f] ELSE DEFAULTS[f].si]

InitRadar ==
  /\ InitSession
  /\ \E f \in AxisSet : \E v \in AxisValues(f) : \E base \in {MeansRecord, DefaultsSI} :
       call = [siVals |-> [base EXCEPT ![f] = v]]
  /\ ret = NoCall

CallNormalizeAxis ==
  /\ ret = NoCall
  /\ \E f \in AxisSet :
       ret' = [fn |-> "normalizeAxis", field |-> f,
               value |-> normalizeAxis(f, call.siVals[f])]
  /\ UNCHANGED <<sessionVars, call>>

CallRadarInit ==
  /\ ret = NoCall
  /\ ret' = [fn |-> "init", svg |-> RadarInit]
  /\ UNCHANGED <<sessionVars, call>>

CallRadarRender ==
  /\ ret.fn = "init"
  /\ ret' = [fn |-> "render",
             svg |-> RadarRender(ret.svg, call.siVals,
                       getElevatedFactors(call.siVals, call.siVals, TRUE).elevatedFactors)]
  /\ UNCHANGED <<sessionVars, call>>

NextRadar ==
  \/ CallNormalizeAxis
  \/ CallRadarInit
  \/ CallRadarRender

SpecRadar == InitRadar /\ [][NextRadar]_vars

(***************************************************************************)
(* The timeline: snapshots and resets, with one slider move in between.    *)
(* call.snapshots lists what was appended since the buffer was last empty. *)
(***************************************************************************)

MaxAppends == 25

\* where the user moves the fasting-glucose slider
TimelineSamples == {101000, 126000}

InitTimeline ==
  /\ InitSession
  /\ call = [fn |-> "addSnapshot", snapshots |-> <<>>]
  /\ ret = NoCall

NextTimeline ==
  \/ /\ clock < MaxAppends
     /\ onSnapshot
     /\ call' = [call EXCEPT !.snapshots =
                   Append(@, [timestamp |-> clock,
                              riskPct   |-> RiskPctOf(inp, toggles, state.isMetric),
                              siVals    |-> toSI(readInputs(inp, toggles), state.isMetric)])]
     /\ UNCHANGED ret
  \/ /\ onReset
     /\ call' = [call EXCEPT !.snapshots = <<>>]
     /\ UNCHANGED ret
  \/ /\ state.activeField = NULL
     /\ \E v \in TimelineSamples : onSliderInput("fastGlu", v)
     /\ UNCHANGED <<call, ret>>

SpecTimeline == InitTimeline /\ [][NextTimeline]_vars

(***************************************************************************)
(* Drags: the slider events of two fields in any order, and the timeouts   *)
(* that onSliderEnd sets.  ret names the field of the last timeout that    *)
(* ran.                                                                    *)
(***************************************************************************)

DragFields == {"fastGlu", "age"}

\* where the sliders are moved to
DragSamples == [fastGlu |-> {101000, 126000}, age |-> {60000}]

\* timeouts of one field that are pending at a time
MaxPendingTimers == 2

InitDrag ==
  /\ InitSession
  /\ call = NoCall
  /\ ret = NoCall

NextDrag ==
  \/ /\ \E f \in DragFields : onSliderStart(f)
     /\ UNCHANGED <<call, ret>>
  \/ /\ \E f \in DragFields : \E v \in DragSamples[f] : onSliderInput(f, v)
     /\ UNCHANGED <<call, ret>>
  \/ /\ \E f \in DragFields : timers[f] < MaxPendingTimers /\ onSliderEnd(f)
     /\ UNCHANGED <<call, ret>>
  \/ /\ \E f \in DragFields :
          badgeTimeout(f) /\ ret' = [fn |-> "badgeTimeout", field |-> f]
     /\ UNCHANGED call

SpecDrag == InitDrag /\ [][NextDrag]_vars

(***************************************************************************)
(* Unit toggles: one converted field holds a value of its US slider, the   *)
(* others their defaults; then the unit switch is flipped back and forth.  *)
(* ret.shown keeps the inputs displayed after each toggle,                 *)
(* call.inputs keeps the inputs before the first toggle, ret.count the     *)
(* number of toggles.                                                      *)
(***************************************************************************)

MaxToggles == 4

\* what onValueChange leaves in a number input for a typed value between two
\* slider positions: the value itself (it is clamped, not rounded to the step)
TypedValues(field, mode) ==
  LET rng == RANGES[field][mode]
  IN  {v + rng[3] \div 2 : v \in SliderValues(field, mode) \ {rng[2]}}

InitUnits ==
  /\ \E f \in CONVERTED : \E v \in SliderValues(f, "us") \cup TypedValues(f, "us") :
       inp = [[g \in RANGED |->
                 Some(IF g \in {"age", "sbp"} THEN DEFAULTS[g] ELSE DEFAULTS[g].us)]
              EXCEPT ![f] = Some(v)]
  /\ InitApp
  /\ call = [fn |-> "onToggleUnits", inputs |-> inp]
  /\ ret = [fn |-> "onToggleUnits", count |-> 0, shown |-> <<>>]

NextUnits ==
  /\ ret.count < MaxToggles
  /\ onToggleUnits(~toggles.unit)
  /\ ret' = [ret EXCEPT !.count = @ + 1, !.shown = Append(@, inp')]
  /\ UNCHANGED call

SpecUnits == InitUnits /\ [][NextUnits]_vars

(***************************************************************************)
(* Properties of the RiskModel functions (SpecModel)                       *)
(***************************************************************************)

\* the sum of the first i fields of a record, in FIELDS order
RECURSIVE SumFields(_, _)
SumFields(rec, i) == IF i = 0 THEN 0 ELSE rec[FIELDS[i]] + SumFields(rec, i - 1)

\* intercept + sum of weight_i * value_i over the 9 weighted fields
RefScore(siVals) ==
  BETAS.sigma * Milli
    + SumFields([f \in FieldSet |-> BETAS[f] * siVals[f]], Len(FIELDS))

\* sum of weight_i * mean_i: 8.212765
MeanOffset == SumFields([f \in FieldSet |-> BETAS[f] * MEANS[f]], Len(FIELDS))

InSeq(x, arr) == \E i \in 1..Len(arr) : arr[i] = x

\* C5 as stated: the contributions of every drawn record sum to
\* score - intercept.
C5_Original ==
  ret.fn = "computeContributions" =>
    SumFields(ret.value, Len(FIELDS)) = Score(call.siVals) - BETAS.sigma * Milli

\* C5 as amended: the contributions sum to score - intercept - 8.212765, the
\* distance of the score from the score of the population mean vector.
C5_SumOfContributions ==
  /\ MeanOffset = 82127650
  /\ ret.fn = "computeContributions" =>
       SumFields(ret.value, Len(FIELDS))
         = Score(call.siVals) - BETAS.sigma * Milli - MeanOffset

C5_Witness ==
  /\ ret.fn = "computeContributions"
  /\ call.siVals # MeansRecord
  /\ SumFields(ret.value, Len(FIELDS)) # 0
  /\ \E f \in FieldSet : ret.value[f] > 0
  /\ \E f \in FieldSet : ret.value[f] < 0

\* C6 as stated: at the population mean vector the score is the intercept
\* and the probability is about 0.00499.
C6_Original ==
  (ret.fn = "computeProbability" /\ call.siVals = MeansRecord) =>
    /\ ret.score = BETAS.sigma * Milli
    /\ ret.value \in 4980..5000

\* C6 as amended: at the population mean vector the score is
\* intercept + 8.212765 = -1.768035 and the probability is 0.145787.
C6_ScoreAtMeans ==
  (ret.fn = "computeProbability" /\ call.siVals = MeansRecord) =>
    /\ ret.score = BETAS.sigma * Milli + MeanOffset
    /\ ret.score = -17680350
    /\ ret.value \in 145786..145787

C6_Witness == ret.fn = "computeProbability" /\ call.siVals = MeansRecord

\* C7: at the population mean vector all 9 contributions are 0, every
\* weight is non-zero, and a contribution is 0 only at the field's mean.
C7_ZeroAtMeans ==
  /\ \A f \in FieldSet : BETAS[f] # 0
  /\ ret.fn = "computeContributions" =>
       /\ DOMAIN ret.value = FieldSet
       /\ call.siVals = MeansRecord => \A f \in FieldSet : ret.value[f] = 0
       /\ \A f \in FieldSet : ret.value[f] = 0 => call.siVals[f] = MEANS[f]

C7_Witness ==
  /\ ret.fn = "computeContributions"
  /\ call.siVals = MeansRecord
  /\ \A f \in FieldSet : ret.value[f] = 0

\* the scores for which 1 / (1 + Math.exp(-score)) is neither 1 nor 0
InDoubleRange(score) == score < SAT_ONE /\ ~SatZero(score)

WithinRanges(rec, mode) ==
  \A f \in RANGED : rec[f] >= RANGES[f][mode][1] /\ rec[f] <= RANGES[f][mode][2]

TriFlagged == InSeq("cholTri", ret.value.elevatedFactors)

\* C10: cholTri is flagged iff raw >= 150 mg/dL with metric display off
\* (whatever the SI value) and iff SI >= 1.7 mmol/L with metric display on;
\* raw 150 with metric off is flagged, SI 1.694 with metric on is not.
C10_TriglycerideRule ==
  ret.fn = "getElevatedFactors" =>
    /\ ~call.isMetric => (TriFlagged <=> call.rawInputs.cholTri >= 150 * Milli)
    /\ call.isMetric  => (TriFlagged <=> call.siVals.cholTri >= 1700)
    /\ (~call.isMetric /\ call.rawInputs.cholTri = 150 * Milli) => TriFlagged
    /\ (call.isMetric /\ call.siVals.cholTri = 1694) => ~TriFlagged

\* raw 150 mg/dL, metric off, SI value 1.694 below the SI threshold: flagged
C10_Witness ==
  /\ ret.fn = "getElevatedFactors"
  /\ ~call.isMetric
  /\ call.rawInputs.cholTri = 150 * Milli
  /\ call.siVals.cholTri = 1694
  /\ TriFlagged

(***************************************************************************)
(* Properties of the session (Spec)                                        *)
(***************************************************************************)

\* the risk percentage of the inputs as they stand
CurrentRisk == RiskPctOf(inp, toggles, state.isMetric)

\* while comparison is active the panel shows the stored baseline P1 and the
\* risk P2 of the inputs as they stand, each with one decimal, and P2 - P1
\* with two decimals
PanelShowsDelta ==
  state.isComparingScenario
    => /\ state.baselineRisk # NULL
       /\ panel # NULL
       /\ Val(panel).baseline = ToFixed(Val(state.baselineRisk), 1)
       /\ Val(panel).current = ToFixed(CurrentRisk, 1)
       /\ Val(panel).delta = ToFixed(CurrentRisk - Val(state.baselineRisk), 2)

\* baselineRisk changes only in a step that switches comparison on or off
BaselineStep ==
  state'.baselineRisk # state.baselineRisk
    => state'.isComparingScenario # state.isComparingScenario

\* C3: while comparison stays active the baseline is kept and the panel
\* shows baseline P1, current risk P2 and delta P2 - P1; only a step that
\* switches comparison on or off changes baselineRisk.
C3_NotRebaselined ==
  /\ []PanelShowsDelta
  /\ [][BaselineStep]_vars

\* comparison is active, the inputs were changed since and a snapshot was
\* taken: the panel shows a delta other than 0
C3_Witness ==
  /\ state.isComparingScenario
  /\ panel # NULL
  /\ Val(panel).delta # 0
  /\ Val(panel).delta = ToFixed(CurrentRisk - Val(state.baselineRisk), 2)
  /\ inp # DefaultInputs
  /\ Len(snapshots) > 0

LatchConsistent == (state.baselineRisk # NULL) <=> state.isComparingScenario

LatchStep ==
  /\ LatchConsistent'
  /\ (~state.isComparingScenario /\ state'.isComparingScenario)
       => (state'.baselineRisk = Some(CurrentRisk) /\ inp' = inp)
  /\ (state.isComparingScenario /\ ~state'.isComparingScenario)
       => state'.baselineRisk = NULL

\* C4: baselineRisk is non-null exactly when isComparingScenario; switching
\* comparison on stores the risk of the current inputs, switching it off
\* stores null.
C4_ComparisonLatch ==
  /\ LatchConsistent
  /\ [][LatchStep]_vars

\* comparison was switched on after the inputs had changed, and the inputs
\* changed again since
C4_Witness ==
  /\ state.isComparingScenario
  /\ state.baselineRisk # NULL
  /\ Val(state.baselineRisk) # RiskPctOf(DefaultInputs, toggles, FALSE)
  /\ Val(state.baselineRisk) # CurrentRisk

\* C16: every ranged field of the record calculate reads lies within the
\* range of the field in the active unit mode.
C16_ClampedBeforeModel ==
  LET rawInputs == readInputs(inp, toggles)
      mode      == IF state.isMetric THEN "si" ELSE "us"
  IN  \A f \in RANGED :
        /\ RANGES[f][mode][1] <= rawInputs[f]
        /\ rawInputs[f] <= RANGES[f][mode][2]

\* a recompute pass on its own (the change listener of the race and parental
\* history toggles is calculate) leaves App.state and the buffer as they were
CalculateFrame ==
  (\E id \in {"race", "parentHist"} : onFlagChange(id))
    => UNCHANGED <<state, snapshots>>

\* onSnapshot changes the buffer (and the chart drawn from it) and nothing else
SnapshotFrame ==
  onSnapshot
    => /\ UNCHANGED <<inp, toggles, sliderMode, state, panel, badge, timers>>
       /\ snapshots' # snapshots

\* C17: calculate leaves isMetric, prevRiskPct, activeField, baselineRisk,
\* isComparingScenario and the snapshot buffer unchanged; onSnapshot changes
\* nothing but the snapshot buffer.
C17_SessionFrame ==
  /\ [][CalculateFrame]_vars
  /\ [][SnapshotFrame]_vars

\* a snapshot was taken while comparison was active and the slider of the
\* active field had moved: App.state holds values a recompute could clobber
C17_Witness ==
  /\ Len(snapshots) = 1
  /\ state.isComparingScenario
  /\ state.baselineRisk # NULL
  /\ state.activeField = Some("fastGlu")
  /\ toggles.race

\* the slider ranges are those of the unit mode, which is the checkbox
ModeConsistent ==
  /\ sliderMode = (IF state.isMetric THEN "si" ELSE "us")
  /\ state.isMetric = toggles.unit

\* after onReset: US mode, US ranges, the seven US defaults, both flags off
ResetToDefaults ==
  onReset
    => /\ ~state'.isMetric
       /\ ~toggles'.unit
       /\ sliderMode' = "us"
       /\ inp' = [age |-> Some(50000), sbp |-> Some(120000), height |-> Some(66000),
                  waist |-> Some(36000), fastGlu |-> Some(95000),
                  cholHDL |-> Some(50000), cholTri |-> Some(150000)]
       /\ ~toggles'.race
       /\ ~toggles'.parentHist

\* a change event of the unit toggle that finds the checkbox equal to the
\* mode changes nothing
ToggleWithoutChange ==
  (toggles.unit = state.isMetric /\ onToggleUnits(toggles.unit))
    => UNCHANGED <<inp, toggles, sliderMode, state, snapshots, timeline, panel,
                   badge, timers>>

\* C26: the slider range mode matches isMetric, isMetric equals the unit
\* checkbox; after onReset the mode is US with the seven US defaults and both
\* flags false; onToggleUnits with the checkbox equal to the mode changes
\* nothing.
C26_RangeModeConsistent ==
  /\ []ModeConsistent
  /\ [][ResetToDefaults]_vars
  /\ [][ToggleWithoutChange]_vars

\* a reset cleared a snapshot taken before it and restored the defaults
\* after the glucose slider had been moved
C26_Witness ==
  /\ clock = 1
  /\ snapshots = <<>>
  /\ state.activeField = Some("fastGlu")
  /\ ~state.isMetric
  /\ sliderMode = "us"
  /\ inp = DefaultInputs
  /\ ~toggles.race

(***************************************************************************)
(* Properties of the snapshot buffer (SpecTimeline)                        *)
(***************************************************************************)

\* C1: the snapshot buffer never holds more than 20 entries, and neither
\* does the chart that addSnapshot renders after its push.
C1_BufferCap ==
  /\ Len(snapshots) <= 20
  /\ timeline.dots <= 20

\* a snapshot was appended to a full buffer
C1_Witness ==
  /\ Len(call.snapshots) = 21
  /\ Len(snapshots) = 20
  /\ timeline.dots = 20

\* C2: after n appends to an empty buffer the buffer holds the last
\* min(n, 20) snapshots appended, in append order.
C2_StrictFifo ==
  LET n == Len(call.snapshots)
      k == Min2(n, 20)
  IN  /\ Len(snapshots) = k
      /\ \A i \in 1..k : snapshots[i] = call.snapshots[n - k + i]

\* 25 snapshots were appended, taken at two different risks: 20 are left, the
\* oldest of them the 6th appended
C2_Witness ==
  /\ Len(call.snapshots) = 25
  /\ Len(snapshots) = 20
  /\ snapshots[1] = call.snapshots[6]
  /\ snapshots[20] = call.snapshots[25]
  /\ snapshots[1].riskPct # snapshots[20].riskPct

\* a reset leaves the buffer and the chart empty
ResetClears == onReset => (snapshots' = <<>> /\ timeline'.kind = "empty")

\* a snapshot taken on an empty buffer is its only entry
FirstSnapshot ==
  (snapshots = <<>> /\ onSnapshot)
    => /\ Len(snapshots') = 1
       /\ snapshots'[1].timestamp = clock
       /\ snapshots'[1].riskPct = RiskPctOf(inp, toggles, state.isMetric)
       /\ timeline'.dots = 1

\* C14: right after onReset the snapshot buffer is empty, whatever its
\* length was, and the next snapshot is entry #1.
C14_ResetClearsHistory ==
  /\ [][ResetClears]_vars
  /\ [][FirstSnapshot]_vars

\* 21 snapshots were taken, the full buffer was reset, and the 22nd snapshot
\* is the only entry
C14_Witness ==
  /\ Len(snapshots) = 1
  /\ snapshots[1].timestamp = 21
  /\ call.snapshots = snapshots
  /\ timeline.dots = 1

\* the 10% line and every point lie between the top and the bottom of the plot
TimelineYInPlot ==
  timeline.kind = "chart"
    => LET top    == PAD.top * 10^6
           bottom == (PAD.top + timeline.plotH) * 10^6
       IN  /\ top <= timeline.threshY /\ timeline.threshY <= bottom
           /\ \A k \in 1..Len(timeline.points) :
                top <= timeline.points[k].cy /\ timeline.points[k].cy <= bottom

\* every point lies between the left and the right end of the plot, and no
\* point lies left of the one before it
TimelineXInPlot ==
  timeline.kind = "chart"
    => LET left  == PAD.left * 10^6
           right == (PAD.left + timeline.plotW) * 10^6
       IN  /\ \A k \in 1..Len(timeline.points) :
                left <= timeline.points[k].cx /\ timeline.points[k].cx <= right
           /\ \A k \in 2..Len(timeline.points) :
                timeline.points[k - 1].cx <= timeline.points[k].cx

\* C21: for a non-empty buffer the y of the 10% line and of every point lies
\* within [PAD.top, PAD.top + plotH], and the x of every point lies within
\* [PAD.left, PAD.left + plotW] and does not decrease in buffer order.
C21_TimelineScaling ==
  /\ TimelineYInPlot
  /\ TimelineXInPlot

\* C22: with no snapshot the timeline shows the empty state and no chart;
\* with one snapshot a single point at x = PAD.left + plotW / 2 and neither
\* line nor area; line and area are drawn iff there are at least two.
C22_TimelineDegenerate ==
  /\ Len(snapshots) = 0
       => (timeline.kind = "empty" /\ timeline.dots = 0)
  /\ Len(snapshots) > 0
       => (timeline.kind = "chart" /\ Len(timeline.points) = Len(snapshots))
  /\ Len(snapshots) = 1
       => 2 * (timeline.points[1].cx - PAD.left * 10^6) = timeline.plotW * 10^6
  /\ timeline.line <=> Len(snapshots) >= 2
  /\ timeline.area <=> Len(snapshots) >= 2

\* one snapshot in a 250 px chart: a single point at x = 12 + 226 / 2 = 125
C22_Witness ==
  /\ Len(snapshots) = 1
  /\ timeline.kind = "chart"
  /\ timeline.W = 250
  /\ timeline.points[1].cx = 125 * 10^6
  /\ ~timeline.line
  /\ ~timeline.area

(***************************************************************************)
(* Properties of the badge timeout (SpecDrag)                              *)
(***************************************************************************)

\* a timeout is ready to run whenever it is pending, whatever App.state holds
TimeoutReady ==
  \A f \in DragFields : timers[f] > 0 => ENABLED badgeTimeout(f)

\* a timeout hides the badge of its field and changes nothing else
TimeoutFrame ==
  \A f \in RANGED :
    badgeTimeout(f)
      => /\ UNCHANGED <<state, inp, toggles, sliderMode, snapshots, timeline, panel>>
         /\ badge'[f] = NULL
         /\ \A g \in RANGED \ {f} : badge'[g] = badge[g]

\* C18: the timeout set by onSliderEnd does not depend on App.state, the
\* inputs or the snapshot buffer and changes none of them; it only hides the
\* badge of the field whose drag ended.
C18_TimerFrame ==
  /\ []TimeoutReady
  /\ [][TimeoutFrame]_vars

\* the timeout of fastGlu ran during a later drag of age, whose badge stays
C18_Witness ==
  /\ ret.fn = "badgeTimeout"
  /\ ret.field = "fastGlu"
  /\ badge.fastGlu = NULL
  /\ badge.age # NULL
  /\ state.activeField = Some("age")
  /\ state.prevRiskPct # NULL
  /\ timers.fastGlu = 0

\* a drag of field f is in progress and its badge is shown
DragShowsBadge(f) ==
  /\ state.activeField = Some(f)
  /\ state.prevRiskPct # NULL
  /\ badge[f] # NULL

\* a timeout that runs during a drag of its field leaves the badge shown
NoStaleCleanup ==
  \A f \in DragFields : (DragShowsBadge(f) /\ badgeTimeout(f)) => badge'[f] # NULL

\* C24: the timeout set by an earlier onSliderEnd does not hide the badge of
\* a later drag of the same field that is still in progress.
C24_NoStaleCleanup == [][NoStaleCleanup]_vars

\* onSliderStart records the field and the risk of the inputs as they stand
DragStartStep ==
  \A f \in DragFields :
    onSliderStart(f)
      => /\ state'.prevRiskPct = Some(RiskPctOf(inp, toggles, state.isMetric))
         /\ state'.activeField = Some(f)

\* onSliderInput keeps prevRiskPct; with a recorded start it renders the
\* badge of its field from the risk of the new inputs minus prevRiskPct,
\* without one it renders no badge
DragInputStep ==
  \A f \in DragFields : \A v \in DragSamples[f] :
    onSliderInput(f, v)
      => /\ state'.prevRiskPct = state.prevRiskPct
         /\ state'.activeField = Some(f)
         /\ IF state.prevRiskPct = NULL THEN badge' = badge
            ELSE LET delta == RiskPctOf([inp EXCEPT ![f] = Some(v)], toggles,
                                        state.isMetric) - Val(state.prevRiskPct)
                 IN  /\ Abs(delta) < ProbScale \div 100 => badge'[f] = NULL
                     /\ Abs(delta) >= ProbScale \div 100
                          => (badge'[f] # NULL /\ Val(badge'[f]).delta = ToFixed(delta, 2))
                     /\ \A g \in RANGED \ {f} : badge'[g] = badge[g]

\* onSliderEnd clears both fields
DragEndStep ==
  \A f \in DragFields :
    onSliderEnd(f) => (state'.prevRiskPct = NULL /\ state'.activeField = NULL)

\* a recorded risk comes with an active field
DragRecorded == state.prevRiskPct # NULL => state.activeField # NULL

\* C25: onSliderStart records the current risk in prevRiskPct; onSliderInput
\* does not change it and the badge delta is current risk - prevRiskPct;
\* onSliderEnd clears prevRiskPct and activeField; a non-null prevRiskPct
\* implies a non-null activeField.
C25_DragProtocol ==
  /\ []DragRecorded
  /\ [][DragStartStep]_vars
  /\ [][DragInputStep]_vars
  /\ [][DragEndStep]_vars

\* the glucose slider was pressed at the defaults and moved twice: the badge
\* shows the difference to the risk recorded at the press
C25_Witness ==
  /\ state.activeField = Some("fastGlu")
  /\ state.prevRiskPct = Some(RiskPctOf(DefaultInputs, toggles, FALSE))
  /\ inp.fastGlu = Some(126000)
  /\ inp.age = Some(DEFAULTS.age)
  /\ badge.fastGlu # NULL
  /\ Val(badge.fastGlu).delta
       = ToFixed(RiskPctOf(inp, toggles, FALSE) - Val(state.prevRiskPct), 2)
  /\ Val(badge.fastGlu).cssClass = "delta-up"

(***************************************************************************)
(* Properties of the unit toggle (SpecUnits)                               *)
(***************************************************************************)

\* C9: after a US -> SI -> US round trip each converted field differs from
\* its original US value by no more than its US step.
C9_RoundTrip ==
  ret.count = 2
    => \A f \in CONVERTED :
         Abs(Val(inp[f]) - Val(call.inputs[f])) <= RANGES[f].us[3]

\* C27: with no other input change, the SI value displayed after US -> SI
\* equals the one displayed after US -> SI -> US -> SI, and the US value
\* after US -> SI -> US equals the one after US -> SI -> US -> SI -> US, for
\* height, waist, fastGlu, cholHDL and cholTri.
C27_ToggleStabilizes ==
  \A f \in CONVERTED :
    /\ Len(ret.shown) >= 3 => ret.shown[3][f] = ret.shown[1][f]
    /\ Len(ret.shown) >= 4 => ret.shown[4][f] = ret.shown[2][f]

\* what getElevatedFactors returns for the given input values in a unit mode
AssessmentOf(inputs, isMetric) ==
  LET rawInputs == readInputs(inputs, toggles)
      status    == getElevatedFactors(toSI(rawInputs, isMetric), rawInputs, isMetric)
  IN  [elevated    |-> {status.elevatedFactors[k] : k \in 1..Len(status.elevatedFactors)},
       waistIsHigh |-> status.waistIsHigh]

\* C23: after a unit toggle US -> SI with no other input change the set of
\* elevated factors and waistIsHigh are what they were before the toggle.
C23_ToggleKeepsAssessment ==
  ret.count = 1 => AssessmentOf(inp, TRUE) = AssessmentOf(call.inputs, FALSE)

(***************************************************************************)
(* Properties of getElevatedFactors (SpecFactors)                          *)
(***************************************************************************)

\* C11: fastGlu is flagged iff SI glucose >= 5.6, sbp iff >= 130, cholHDL iff
\* SI HDL <= 1.0, waist iff SI waist >= 94; no field is flagged twice and none
\* outside the five; waistIsHigh iff SI waist >= 102, and then waist is flagged.
C11_ElevatedFactors ==
  ret.fn = "getElevatedFactors"
    => LET e == ret.value.elevatedFactors
           v == call.siVals
       IN  /\ InSeq("fastGlu", e) <=> v.fastGlu >= 5600
           /\ InSeq("sbp", e)     <=> v.sbp >= 130000
           /\ InSeq("cholHDL", e) <=> v.cholHDL <= 1000
           /\ InSeq("waist", e)   <=> v.waist >= 94000
           /\ \A i, j \in 1..Len(e) : i # j => e[i] # e[j]
           /\ \A i \in 1..Len(e) :
                e[i] \in {"fastGlu", "sbp", "cholHDL", "cholTri", "waist"}
           /\ ret.value.waistIsHigh <=> v.waist >= 102000
           /\ ret.value.waistIsHigh => InSeq("waist", e)

\* every threshold is met exactly: all five fields are flagged, the waist high
C11_Witness ==
  /\ ret.fn = "getElevatedFactors"
  /\ call.siVals.fastGlu = 5600
  /\ call.siVals.sbp = 130000
  /\ call.siVals.cholHDL = 1000
  /\ call.siVals.waist = 102000
  /\ Len(ret.value.elevatedFactors) = 5
  /\ ret.value.waistIsHigh

(***************************************************************************)
(* Properties of toSI and computeWhatIfDelta (SpecModel)                   *)
(***************************************************************************)

\* the result of toSI against the reference: the input itself when metric;
\* otherwise height and waist times 2.54, fastGlu / 18, cholHDL / 38.67,
\* cholTri / 88.57, the other four fields as they were
ToSIReference ==
  ret.fn = "toSI"
    => LET x == call.rawInputs
           y == ret.value
       IN  /\ DOMAIN y = DOMAIN x
           /\ call.isMetric => y = x
           /\ ~call.isMetric
                => /\ y.height  = RoundDiv(x.height * 254, 100)
                   /\ y.waist   = RoundDiv(x.waist * 254, 100)
                   /\ y.fastGlu = RoundDiv(x.fastGlu, 18)
                   /\ y.cholHDL = RoundDiv(x.cholHDL * 100, 3867)
                   /\ y.cholTri = RoundDiv(x.cholTri * 100, 8857)
                   /\ \A f \in {"age", "sbp", "race", "parentHist"} : y[f] = x[f]

\* a call of toSI leaves its argument and the session as they were
ToSIFrame == ret'.fn = "toSI" => UNCHANGED <<call, sessionVars>>

\* C12: toSI returns the input values when metric and the converted values
\* otherwise, age, sbp, race and parentHist passing through; the input
\* record is not modified.
C12_ToSI ==
  /\ []ToSIReference
  /\ [][ToSIFrame]_vars

\* toSI was called on a US record: waist and glucose were converted
C12_Witness ==
  /\ ret.fn = "toSI"
  /\ ~call.isMetric
  /\ call.rawInputs.waist = 36000
  /\ ret.value.waist = 91440
  /\ call.rawInputs.fastGlu = 95000
  /\ ret.value.fastGlu = 5278
  /\ ret.value.sbp = call.rawInputs.sbp

\* the result of computeWhatIfDelta against the reference: the risk of a
\* record that differs from rawInputs in the named field only, by
\* direction * step * 5, minus the risk of rawInputs, in percent; step is the
\* slider step of the field in the active unit mode (1 for race and
\* parentHist, which have no slider)
WhatIfReference ==
  ret.fn = "computeWhatIfDelta"
    => LET x    == call.rawInputs
           step == IF ret.field \in RANGED
                   THEN RANGES[ret.field][IF call.isMetric THEN "si" ELSE "us"][3]
                   ELSE 1000
           alt  == [g \in DOMAIN x |->
                      IF g = ret.field THEN x[g] + ret.direction * step * 5 ELSE x[g]]
       IN  ret.value = (computeProbability(toSI(alt, call.isMetric))
                        - computeProbability(toSI(x, call.isMetric))) * 100

\* a call of computeWhatIfDelta leaves its argument and the session as they were
WhatIfFrame == ret'.fn = "computeWhatIfDelta" => UNCHANGED <<call, sessionVars>>

\* C13: computeWhatIfDelta returns (altered - baseline) * 100 where the
\* altered record differs in the named field only, by direction * step * 5;
\* rawInputs and the session state are left unchanged.
C13_WhatIfDelta ==
  /\ []WhatIfReference
  /\ [][WhatIfFrame]_vars

\* glucose of a metric record moved 5 steps of 0.1 mmol/L down: the risk falls
C13_Witness ==
  /\ ret.fn = "computeWhatIfDelta"
  /\ call.isMetric
  /\ ret.field = "fastGlu"
  /\ ret.direction = -1
  /\ call.rawInputs.fastGlu = 5500
  /\ ret.value < 0

(***************************************************************************)
(* Properties of the contribution chart (SpecModel)                        *)
(***************************************************************************)

\* C15: when every contribution is 0 every share is 0 (not NaN); otherwise
\* the share of a field is |contribution| / sum of |contributions| * 100, it
\* lies in [0, 100], and the shares of the 9 fields sum to 100.
C15_ShareNormalization ==
  ret.fn = "renderContributionChart"
    => LET c     == ret.contributions
           total == SumFields([f \in FieldSet |-> Abs(c[f])], Len(FIELDS))
           items == ret.value
           num(i) == items[i].pctOfTotal[1]
           den(i) == items[i].pctOfTotal[2]
       IN  /\ {items[i].key : i \in 1..Len(items)} = FieldSet
           /\ Len(items) = Len(FIELDS)
           /\ \A i \in 1..Len(items) : den(i) > 0
           /\ total = 0 => \A i \in 1..Len(items) : num(i) = 0
           /\ total > 0
                => /\ \A i \in 1..Len(items) :
                        /\ num(i) = Abs(c[items[i].key])
                        /\ den(i) = total
                        /\ 0 <= num(i) /\ num(i) <= den(i)
                   /\ SumFields([f \in FieldSet |->
                                   LET i == CHOOSE j \in 1..Len(items) : items[j].key = f
                                   IN  num(i)], Len(FIELDS)) = total

\* the chart of the population means: every contribution and every share is 0
C15_Witness ==
  /\ ret.fn = "renderContributionChart"
  /\ \A f \in FieldSet : ret.contributions[f] = 0
  /\ \A i \in 1..Len(ret.value) : ret.value[i].pctOfTotal = <<0, 1>>

(***************************************************************************)
(* Properties of the radar chart (SpecRadar)                               *)
(***************************************************************************)

\* C19: normalizeAxis maps the SI value of an axis into [0, 1]: 0 at or
\* below the minimum of the SI range, 1 at or above the maximum, linear in
\* between; for cholHDL the result is 1 minus that ratio.
C19_NormalizeAxis ==
  ret.fn = "normalizeAxis"
    => LET f     == ret.field
           v     == call.siVals[f]
           min   == RANGES[f].si[1]
           max   == RANGES[f].si[2]
           num   == ret.value[1]
           den   == ret.value[2]
           ratio == IF f = "cholHDL" THEN den - num ELSE num
       IN  /\ f \in {"fastGlu", "sbp", "cholTri", "waist", "cholHDL", "age"}
           /\ den > 0
           /\ 0 <= num /\ num <= den
           /\ v <= min => ratio = 0
           /\ v >= max => ratio = den
           /\ (min < v /\ v < max) => (ratio = v - min /\ den = max - min)

\* an HDL of 1.0 mmol/L, inside its range 0.5 .. 2.6: the ratio 0.5 / 2.1 is
\* inverted to 1.6 / 2.1
C19_Witness ==
  /\ ret.fn = "normalizeAxis"
  /\ ret.field = "cholHDL"
  /\ call.siVals.cholHDL = 1000
  /\ ret.value = <<1600, 2100>>

\* C20: the population polygon has the points of the ideal polygon, which
\* are those of the ratios of the population means; a patient at the
\* population means gets the same points.
C20_PopulationIsIdeal ==
  ret.fn \in {"init", "render"}
    => /\ ret.svg.populationPoly = ret.svg.idealPoly
       /\ \A i \in 1..Len(AXES) :
            LET pt == polarToXY(i - 1, normalizeAxis(AXES[i], MEANS[AXES[i]]))
            IN  ret.svg.idealPoly[i] = <<ToFixed(pt.x, 1), ToFixed(pt.y, 1)>>
       /\ (ret.fn = "render" /\ \A f \in AxisSet : call.siVals[f] = MEANS[f])
            => /\ ret.svg.patientPoly = ret.svg.idealPoly
               /\ ret.svg.patientPoly = ret.svg.populationPoly

\* the chart was rendered for a patient at the population means
C20_Witness ==
  /\ ret.fn = "render"
  /\ \A f \in AxisSet : call.siVals[f] = MEANS[f]
  /\ ret.svg.patientPoly = ret.svg.idealPoly
  /\ ret.svg.idealPoly[1] # <<ToFixed(CENTER * 10^6, 1), ToFixed(CENTER * 10^6, 1)>>

====
